---- MODULE Spec2Model ----
(***************************************************************************)
(* Model of client/executor/wasmedge/src/host.rs: the HostState that lives *)
(* for one runtime call, the HostContext built for every host call, the    *)
(* Sandbox implementation (memory_new .. get_global_val) and the           *)
(* SandboxContext that routes supervisor calls of a nested instance back   *)
(* into the outer guest through the dispatch thunk.                        *)
(*                                                                         *)
(* Guest code is not deterministic from the host's point of view: every    *)
(* point where guest code runs (the start function run by                  *)
(* Store::instantiate, the export run by SandboxInstance::invoke, the      *)
(* outer guest run by the dispatch thunk) is modelled by the set of things *)
(* that guest code can do next: call a host function, call a supervisor    *)
(* function, return, trap.  The call stack of host calls in progress is    *)
(* the variable `stack`.                                                   *)
(***************************************************************************)
EXTENDS Integers, Sequences, FiniteSets, TLC

\* ------------------------------------------------------------------ bounds
MaxInstances == 2      \* instances registered in one store
MaxMemories  == 1      \* memories registered in one store
MaxDepth     == 3      \* frames of nested host calls / guest calls
MaxNest      == 5      \* the same, where only instances are created and invoked
MemBytes     == 12     \* size of the outer linear memory at the start, in bytes
PageBytes    == 4      \* bytes of one page of a linear memory (64 KiB, scaled)
MaxGrow      == 1      \* times the outer guest grows its memory by one page
TableLen     == 3      \* slots of the outer function table

\* ------------------------------------------------- sp_sandbox::env codes
\* A u32 is represented by the i32 of the same bit pattern, so that
\* `-1i32 as u32` is -1.
ERR_OK            == 0
ERR_MODULE        == -1
ERR_EXECUTION     == -2
ERR_OUT_OF_BOUNDS == -3

\* --------------------------------------------------------------- options
\* Option<T> is a sequence of length 0 (None) or 1 (Some(x)).
None       == <<>>
Some(x)    == <<x>>
IsSome(o)  == o # <<>>
Unwrap(o)  == o[1]

\* ---------------------------------------------------------------- values
\* sp_wasm_interface::Value, the two integer variants.
Values == { [ty |-> "I32", v |-> 258], [ty |-> "I64", v |-> 772] }

RECURSIVE LeBytes(_, _)
\* n little-endian bytes of x
LeBytes(x, n) == IF n = 0 THEN <<>> ELSE <<x % 256>> \o LeBytes(x \div 256, n - 1)

\* SCALE encoding of Value: variant index, then the integer little-endian.
EncodeValue(val) ==
  IF val.ty = "I32" THEN <<0>> \o LeBytes(val.v, 4)
                    ELSE <<1>> \o LeBytes(val.v, 8)

\* SCALE encoding of ReturnValue::Value(val): variant index 1, then the value.
EncodeReturnValue(val) == <<1>> \o EncodeValue(val)

\* ----------------------------------------------------------- outer memory
\* A linear memory is the function from its addresses 0 .. size - 1 to bytes.
\* util::memory_slice / memory_slice_mut: the slice of the memory as it is
\* when called; its length is the size of the memory at that moment.
MemSize(mem) == Cardinality(DOMAIN mem)

\* util::write_memory_from: copy data to [address, address + len) if that
\* range lies inside the memory, else an error and no change.
write_memory_from(mem, address, data) ==
  IF address + Len(data) > MemSize(mem)
    THEN [ok |-> FALSE, mem |-> mem]
    ELSE [ok |-> TRUE,
          mem |-> [a \in DOMAIN mem |->
                     IF a >= address /\ a < address + Len(data)
                       THEN data[a - address + 1] ELSE mem[a]]]

\* util::read_memory_into: fill dest (of length len) from
\* [address, address + len) if that range lies inside the memory, else an
\* error and dest as it was.
util_read_memory_into(mem, address, dest) ==
  IF address + Len(dest) > MemSize(mem)
    THEN [ok |-> FALSE, data |-> dest]
    ELSE [ok |-> TRUE,  data |-> [i \in 1 .. Len(dest) |-> mem[address + i - 1]]]

\* util::read_memory: a new buffer of len bytes, filled by read_memory_into.
read_memory(mem, address, len) ==
  util_read_memory_into(mem, address, [i \in 1 .. len |-> 0])

\* The engine grows a memory by one page: the old bytes stay, the new are 0.
GrowMemory(mem) ==
  [a \in 0 .. MemSize(mem) + PageBytes - 1 |->
     IF a < MemSize(mem) THEN mem[a] ELSE 0]

ZeroMemory(size) == [a \in 0 .. size - 1 |-> 0]

\* (variant: the bytes that fit are written before the error is reported)
write_memory_Clamped(mem, address, data) ==
  IF address + Len(data) > MemSize(mem)
    THEN [ok |-> FALSE,
          mem |-> [a \in DOMAIN mem |->
                     IF a >= address THEN data[a - address + 1] ELSE mem[a]]]
    ELSE write_memory_from(mem, address, data)

\* (variant: the range is judged by the size the memory had at the start)
write_memory_Stale(mem, address, data) ==
  IF address + Len(data) > MemBytes
    THEN [ok |-> FALSE, mem |-> mem]
    ELSE write_memory_from(mem, address, data)

\* HostContext::write_memory
write_memory(mem, address, data) == write_memory_from(mem, address, data)

\* ------------------------------------------------------- sandbox::Store
\* instances and memories are vectors indexed by id; teardown leaves a hole.
EmptyStore == [instances |-> <<>>, memories |-> <<>>]

NoInstance == [live |-> FALSE, thunk |-> 0]
NoMemory   == [live |-> FALSE, size |-> 0, data |-> ZeroMemory(0)]

\* Store::instance / Store::dispatch_thunk: Err(InvalidHandle) on a hole or
\* an index never issued.
HasInstance(store, id) ==
  id + 1 <= Len(store.instances) /\ store.instances[id + 1].live

HasMemory(store, id) ==
  id + 1 <= Len(store.memories) /\ store.memories[id + 1].live

\* Store::dispatch_thunk
StoreDispatchThunk(store, id) == store.instances[id + 1].thunk

\* UnregisteredInstance::register -> Store::register_sandbox_instance:
\* push at the end, the id is the index.
StoreRegister(store, thunk) ==
  [store |-> [store EXCEPT !.instances =
                 Append(@, [live |-> TRUE, thunk |-> thunk])],
   id    |-> Len(store.instances)]

\* Store::instance_teardown
StoreInstanceTeardown(store, id) ==
  [store EXCEPT !.instances[id + 1] = NoInstance]

\* Store::new_memory
StoreNewMemory(store, initial) ==
  [store |-> [store EXCEPT !.memories =
                 Append(@, [live |-> TRUE, size |-> initial,
                            data |-> ZeroMemory(initial * PageBytes)])],
   id    |-> Len(store.memories)]

\* Store::memory_teardown
StoreMemoryTeardown(store, id) ==
  [store EXCEPT !.memories[id + 1] = NoMemory]

\* Store::memory: the bytes of the registered memory id.
StoreMemory(store, id) == store.memories[id + 1].data

\* ---------------------------------------------------------- outer table
\* A table slot is a Val: a function reference (ref = 0: the null
\* reference, Val::FuncRef(None)) or some other kind of value.
Slot(kind, ref) == [kind |-> kind, ref |-> ref]

\* The runtime has no table, or a table with one function.
Tables ==
  { None,
    Some(<<Slot("FuncRef", 1), Slot("FuncRef", 0), Slot("ExternRef", 0)>>) }

\* A table with two functions.
NestTable ==
  Some(<<Slot("FuncRef", 1), Slot("FuncRef", 2), Slot("FuncRef", 0)>>)

\* results of fallible host code
Ok(v)    == [kind |-> "ok",  val |-> v, msg |-> ""]
Err(m)   == [kind |-> "err", val |-> 0, msg |-> m]
Panicked == [kind |-> "panic", val |-> 0, msg |-> ""]

\* Store::instance, Store::memory, ..: the id names nothing registered.
InvalidHandle == Err("InvalidHandle")

\* (variant: any function reference is taken, the null reference included)
DispatchThunkLookup_AnyFuncRef(tbl, dispatch_thunk_id) ==
  IF ~IsSome(tbl)
    THEN Err("Runtime doesn't have a table; sandbox is unavailable")
  ELSE IF dispatch_thunk_id + 1 > Len(Unwrap(tbl))
    THEN Err("dispatch_thunk_id is out of bounds")
  ELSE LET val == Unwrap(tbl)[dispatch_thunk_id + 1] IN
       IF val.kind = "FuncRef"
         THEN Ok(val.ref)
         ELSE Err("dispatch_thunk_id should point to actual func")

\* instance_new, the block that extracts the dispatch thunk from the table.
DispatchThunkLookup(tbl, dispatch_thunk_id) ==
  IF ~IsSome(tbl)
    THEN Err("Runtime doesn't have a table; sandbox is unavailable")
  ELSE IF dispatch_thunk_id + 1 > Len(Unwrap(tbl))
    THEN Err("dispatch_thunk_id is out of bounds")
  ELSE LET val == Unwrap(tbl)[dispatch_thunk_id + 1] IN
       IF val.kind = "FuncRef" /\ val.ref # 0
         THEN Ok(val.ref)
         ELSE Err("dispatch_thunk_id should point to actual func")

\* ------------------------------------------------------------------ state
VARIABLES
  sandbox_store,   \* HostState.sandbox_store.0 : Option<Box<sandbox::Store>>
  memory,          \* content of HostContext.memory, the outer linear memory
  table,           \* HostContext.table : Option<Table>
  stack,           \* host calls and guest calls in progress, innermost last
  status,          \* "running", "unwinding" (a panic is propagating),
                   \* "panicked" (it left the top-level call), "aborted"
  panic_cause,     \* which panic is or was propagating
  outcome,         \* what the last step returned to its caller, if it returned
  panic_message,   \* HostState.panic_message : Option<String>
  allocator,       \* HostState.allocator, the state of the heap allocator
  dest,            \* the buffer `dest` of the last read_memory_into
  taken            \* what the last take_panic_message returned

vars == <<sandbox_store, memory, table, stack, status, panic_cause, outcome,
          panic_message, allocator, dest, taken>>

\* what the functions of the sandbox leave alone
rest == <<panic_message, allocator, dest, taken>>

\* A frame of the stack.  op = "instance_new": HostContext::instance_new is
\* inside catch_unwind, Store::instantiate runs the start function; `store`
\* is its local variable holding the store taken from the host state.
\* op = "invoke": HostContext::invoke is inside SandboxInstance::invoke.
\* op = "dispatch": SandboxContext::invoke is inside dispatch_thunk.call,
\* the outer guest runs the supervisor function.
Frame(op, thunk, inst, store, return_val, return_val_len) ==
  [op |-> op, thunk |-> thunk, inst |-> inst, store |-> store,
   return_val |-> return_val, return_val_len |-> return_val_len]

Top      == stack[Len(stack)]
Pop(stk) == SubSeq(stk, 1, Len(stk) - 1)

\* inputs of the host calls
ThunkIds    == 0 .. TableLen
InstanceIds == 0 .. MaxInstances
MemoryIds   == 0 .. MaxMemories
ReturnBufs  == { <<0, 6>>, <<8, 10>> }   \* <<return_val, return_val_len>>
NestBuf     == <<0, 6>>
MemoryLimits == { <<1, 2>>, <<2, 1>> }   \* <<initial, maximum>>

Offsets      == {0, PageBytes - 2}       \* offsets in a nested memory
Pointers     == {0, 4, MemBytes - 2}     \* addresses in the outer memory
Lengths      == {3}                      \* lengths of the copies
AllocSizes   == {2 * PageBytes}          \* sizes asked of the allocator
Messages     == {"m1", "m2"}             \* panic messages
WriteData    == {<<21, 22, 23>>, <<31>>} \* data of write_memory
Edge         == MemBytes - 2             \* an address near the end of the memory
EdgeBuf      == <<MemBytes - 4, 10>>     \* a return buffer that ends beyond it
EdgeData     == <<21, 22, 23>>           \* data that ends beyond it
EdgeResult   == [kind |-> "some", val |-> [ty |-> "I32", v |-> 258]]

NoOutcome == [op |-> "none", res |-> [kind |-> "none", val |-> 0, msg |-> ""]]

\* FreeingBumpHeapAllocator::new: nothing is allocated.  bumper is the first
\* address never handed out, ptrs the allocations that are live.
NewAllocator == [bumper |-> 0, ptrs |-> {}]

\* FreeingBumpHeapAllocator::allocate over the slice `heap` of the outer
\* memory: size bytes at the bumper, or an error when they do not fit.
AllocatorAllocate(alloc, heap, size) ==
  IF alloc.bumper + size > MemSize(heap)
    THEN [alloc |-> alloc, res |-> Err("allocator: out of space")]
    ELSE [alloc |-> [bumper |-> alloc.bumper + size,
                     ptrs   |-> alloc.ptrs \cup {alloc.bumper}],
          res   |-> Ok(alloc.bumper)]

\* FreeingBumpHeapAllocator::deallocate: ptr must be a live allocation.
AllocatorDeallocate(alloc, heap, ptr) ==
  IF ptr \notin alloc.ptrs
    THEN [alloc |-> alloc, res |-> Err("allocator: invalid pointer")]
    ELSE [alloc |-> [alloc EXCEPT !.ptrs = @ \ {ptr}], res |-> Ok(0)]

\* HostState::new, and the HostContext of the runtime call with table tbl.
InitWith(tbl) ==
  /\ sandbox_store = Some(EmptyStore)
  /\ memory = ZeroMemory(MemBytes)
  /\ table = tbl
  /\ stack = <<>>
  /\ status = "running"
  /\ panic_cause = "none"
  /\ outcome = NoOutcome
  /\ panic_message = None
  /\ allocator = NewAllocator
  /\ dest = <<>>
  /\ taken = None

Init == \E tbl \in Tables : InitWith(tbl)

InitNest == InitWith(NestTable)

\* The same with an outer memory whose bytes differ from each other.
InitAccess ==
  /\ sandbox_store = Some(EmptyStore)
  /\ memory = [a \in 0 .. MemBytes - 1 |-> a + 1]
  /\ table = None
  /\ stack = <<>>
  /\ status = "running"
  /\ panic_cause = "none"
  /\ outcome = NoOutcome
  /\ panic_message = None
  /\ allocator = NewAllocator
  /\ dest = <<>>
  /\ taken = None

\* Guest code that may call host functions is running: the runtime itself
\* (no frame) or the outer guest entered through a dispatch thunk.
CanHostCall ==
  /\ status = "running"
  /\ (stack # <<>>) => (Top.op = "dispatch")

\* A host call returns res to the guest that called it.
Finish(op, res) == outcome' = [op |-> op, res |-> res]

\* The step enters guest code: nothing is returned yet.
Enter == outcome' = NoOutcome

\* A host function panics; stk is the stack it leaves behind.  With no
\* frame left the panic leaves the top-level host call.
Panic(op, cause, stk) ==
  /\ panic_cause' = cause
  /\ outcome' = [op |-> op, res |-> Panicked]
  /\ status' = (IF stk = <<>> THEN "panicked" ELSE "unwinding")

\* HostContext::sandbox_store / sandbox_store_mut:
\* .expect("sandbox store is only empty when temporarily borrowed")
StoreAccessible(slot) == IsSome(slot)

\* ---------------------------------------------------------- instance_new
\* (variant: the store is copied, the slot keeps it)
TakeStore_Copy(slot) == [slot |-> slot, store |-> slot]

\* instance_new: self.host_state.sandbox_store.0.take(): the slot is left
\* None and the store is in the local variable.
TakeStore(slot) == [slot |-> None, store |-> slot]

\* (variant: the store is put back on the normal path only)
RestoreStore_OnReturnOnly(slot, store, panicking) ==
  IF panicking THEN slot ELSE store

\* instance_new: self.host_state.sandbox_store.0 = Some(store), executed
\* after catch_unwind on the normal path and on the panic path alike.
RestoreStore(slot, store, panicking) == store

\* (variant: the instance is registered in a new store)
InstantiateOutcome_FreshStore(result, store, dispatch_thunk) ==
  IF result = "Ok"
    THEN LET r == StoreRegister(EmptyStore, dispatch_thunk)
         IN  [store |-> r.store, res |-> Ok(r.id)]
  ELSE IF result = "StartTrapped"
    THEN [store |-> store, res |-> Ok(ERR_EXECUTION)]
    ELSE [store |-> store, res |-> Ok(ERR_MODULE)]

\* (variant: a trapped start function is reported as a module error)
InstantiateOutcome_TrapAsModule(result, store, dispatch_thunk) ==
  IF result = "Ok"
    THEN LET r == StoreRegister(store, dispatch_thunk)
         IN  [store |-> r.store, res |-> Ok(r.id)]
    ELSE [store |-> store, res |-> Ok(ERR_MODULE)]

\* instance_new, from the match on the result of instantiate to the return:
\* the store after it and the value returned.
InstantiateOutcome(result, store, dispatch_thunk) ==
  IF result = "Ok"
    THEN LET r == StoreRegister(store, dispatch_thunk)
         IN  [store |-> r.store, res |-> Ok(r.id)]
  ELSE IF result = "StartTrapped"
    THEN [store |-> store, res |-> Ok(ERR_EXECUTION)]
    ELSE [store |-> store, res |-> Ok(ERR_MODULE)]

InstantiationResults == {"Ok", "StartTrapped", "ModuleError"}

\* (variant: raw_env_def is decoded before the dispatch thunk is looked up)
InstanceNewPrologue_DecodeFirst(tbl, slot, dispatch_thunk_id, envOk) ==
  LET lookup == DispatchThunkLookup(tbl, dispatch_thunk_id) IN
  IF ~StoreAccessible(slot) THEN [step |-> "panic", res |-> Panicked]
  ELSE IF ~envOk THEN [step |-> "return", res |-> Ok(ERR_MODULE)]
  ELSE IF lookup.kind = "err" THEN [step |-> "return", res |-> lookup]
  ELSE [step |-> "instantiate", res |-> lookup]

\* instance_new up to the call of store.instantiate, in the order of the
\* code: the dispatch thunk is looked up (a hard error if that fails), the
\* store is borrowed for GuestEnvironment::decode (sandbox_store() panics on
\* an empty slot), raw_env_def is decoded (envOk: whether it decodes).
InstanceNewPrologue(tbl, slot, dispatch_thunk_id, envOk) ==
  LET lookup == DispatchThunkLookup(tbl, dispatch_thunk_id) IN
  IF lookup.kind = "err" THEN [step |-> "return", res |-> lookup]
  ELSE IF ~StoreAccessible(slot) THEN [step |-> "panic", res |-> Panicked]
  ELSE IF ~envOk THEN [step |-> "return", res |-> Ok(ERR_MODULE)]
  ELSE [step |-> "instantiate", res |-> lookup]

instance_new(dispatch_thunk_id, envOk, limit) ==
  /\ CanHostCall
  /\ UNCHANGED rest
  /\ LET p == InstanceNewPrologue(table, sandbox_store, dispatch_thunk_id, envOk) IN
     IF p.step = "return" THEN
       /\ Finish("instance_new", p.res)
       /\ UNCHANGED <<sandbox_store, memory, table, stack, status, panic_cause>>
     ELSE IF p.step = "panic" THEN
       /\ Panic("instance_new", "store_borrowed", stack)
       /\ UNCHANGED <<sandbox_store, memory, table, stack>>
     ELSE
       /\ Len(stack) < limit
       /\ LET t == TakeStore(sandbox_store) IN
          /\ sandbox_store' = t.slot
          /\ stack' = Append(stack,
                        Frame("instance_new", p.res.val, 0, t.store, 0, 0))
       /\ Enter
       /\ UNCHANGED <<memory, table, status, panic_cause>>

\* store.instantiate returns: the store is put back, the result is mapped.
instantiate_return(result) ==
  /\ status = "running"
  /\ UNCHANGED rest
  /\ stack # <<>> /\ Top.op = "instance_new"
  /\ result = "Ok" => Len(Unwrap(Top.store).instances) < MaxInstances
  /\ stack' = Pop(stack)
  /\ UNCHANGED <<memory, table>>
  /\ LET restored == RestoreStore(sandbox_store, Top.store, FALSE) IN
     IF result = "Ok" /\ ~StoreAccessible(restored) THEN
       \* instance.register(self.sandbox_store_mut(), ..)
       /\ sandbox_store' = restored
       /\ Panic("instance_new", "store_borrowed", Pop(stack))
     ELSE IF result = "Ok" THEN
       LET out == InstantiateOutcome(result, Unwrap(restored), Top.thunk) IN
       /\ sandbox_store' = Some(out.store)
       /\ Finish("instance_new", out.res)
       /\ UNCHANGED <<status, panic_cause>>
     ELSE
       /\ sandbox_store' = restored
       /\ Finish("instance_new",
                 InstantiateOutcome(result, EmptyStore, Top.thunk).res)
       /\ UNCHANGED <<status, panic_cause>>

\* store.instantiate panics in host code (not in a host function called by
\* the guest): catch_unwind catches it.
instantiate_panic ==
  /\ status = "running"
  /\ UNCHANGED rest
  /\ stack # <<>> /\ Top.op = "instance_new"
  /\ status' = "unwinding"
  /\ panic_cause' = "instantiate"
  /\ Enter
  /\ UNCHANGED <<sandbox_store, memory, table, stack>>

\* --------------------------------------------------------------- invoke
ExportResults ==
  {[kind |-> "none"], [kind |-> "err"]} \cup
  {[kind |-> "some", val |-> v] : v \in Values}

\* (variant: a failed execution is a hard error)
InvokeOutcome_ErrAsHardError(result, mem, return_val, return_val_len) ==
  IF result.kind = "none" THEN [mem |-> mem, res |-> Ok(ERR_OK)]
  ELSE IF result.kind = "err" THEN [mem |-> mem, res |-> Err("execution failed")]
  ELSE LET val == EncodeReturnValue(result.val) IN
       IF Len(val) > return_val_len
         THEN [mem |-> mem, res |-> Err("Return value buffer is too small")]
       ELSE LET w == write_memory(mem, return_val, val) IN
            IF ~w.ok
              THEN [mem |-> w.mem, res |-> Err("can't write return value")]
              ELSE [mem |-> w.mem, res |-> Ok(ERR_OK)]

\* (variant: a value that does not fit is truncated to the buffer)
InvokeOutcome_Truncate(result, mem, return_val, return_val_len) ==
  IF result.kind = "none" THEN [mem |-> mem, res |-> Ok(ERR_OK)]
  ELSE IF result.kind = "err" THEN [mem |-> mem, res |-> Ok(ERR_EXECUTION)]
  ELSE LET val == EncodeReturnValue(result.val) IN
       IF Len(val) > return_val_len
         THEN [mem |-> write_memory(mem, return_val,
                                    SubSeq(val, 1, return_val_len)).mem,
               res |-> Err("Return value buffer is too small")]
       ELSE LET w == write_memory(mem, return_val, val) IN
            IF ~w.ok
              THEN [mem |-> w.mem, res |-> Err("can't write return value")]
              ELSE [mem |-> w.mem, res |-> Ok(ERR_OK)]

\* (variant: a value that does not fit is reported as a status code)
InvokeOutcome_TooSmallAsStatus(result, mem, return_val, return_val_len) ==
  IF result.kind = "none" THEN [mem |-> mem, res |-> Ok(ERR_OK)]
  ELSE IF result.kind = "err" THEN [mem |-> mem, res |-> Ok(ERR_EXECUTION)]
  ELSE LET val == EncodeReturnValue(result.val) IN
       IF Len(val) > return_val_len
         THEN [mem |-> mem, res |-> Ok(ERR_OUT_OF_BOUNDS)]
       ELSE LET w == write_memory(mem, return_val, val) IN
            IF ~w.ok
              THEN [mem |-> w.mem, res |-> Err("can't write return value")]
              ELSE [mem |-> w.mem, res |-> Ok(ERR_OK)]

\* (variant: a return value that cannot be written is dropped silently)
InvokeOutcome_WriteFailureIgnored(result, mem, return_val, return_val_len) ==
  IF result.kind = "none" THEN [mem |-> mem, res |-> Ok(ERR_OK)]
  ELSE IF result.kind = "err" THEN [mem |-> mem, res |-> Ok(ERR_EXECUTION)]
  ELSE LET val == EncodeReturnValue(result.val) IN
       IF Len(val) > return_val_len
         THEN [mem |-> mem, res |-> Err("Return value buffer is too small")]
         ELSE [mem |-> write_memory(mem, return_val, val).mem, res |-> Ok(ERR_OK)]

\* invoke, the match on the result of instance.invoke: the outer memory
\* after it and the value returned.
InvokeOutcome(result, mem, return_val, return_val_len) ==
  IF result.kind = "none" THEN [mem |-> mem, res |-> Ok(ERR_OK)]
  ELSE IF result.kind = "err" THEN [mem |-> mem, res |-> Ok(ERR_EXECUTION)]
  ELSE LET val == EncodeReturnValue(result.val) IN
       IF Len(val) > return_val_len
         THEN [mem |-> mem, res |-> Err("Return value buffer is too small")]
       ELSE LET w == write_memory(mem, return_val, val) IN
            IF ~w.ok
              THEN [mem |-> w.mem, res |-> Err("can't write return value")]
              ELSE [mem |-> w.mem, res |-> Ok(ERR_OK)]

\* invoke up to the call of instance.invoke, in the order of the code: the
\* arguments are decoded (argsOk: whether they decode), the instance and
\* its dispatch thunk are looked up in the store.
InvokePrologue(slot, instance_id, argsOk) ==
  IF ~argsOk
    THEN [step |-> "return",
          res |-> Err("Can't decode serialized arguments for the invocation")]
  ELSE IF ~StoreAccessible(slot) THEN [step |-> "panic", res |-> Panicked]
  ELSE IF ~HasInstance(Unwrap(slot), instance_id)
    THEN [step |-> "return", res |-> InvalidHandle]
    ELSE [step |-> "invoke",
          res |-> Ok(StoreDispatchThunk(Unwrap(slot), instance_id))]

invoke(instance_id, argsOk, return_val, return_val_len, limit) ==
  /\ CanHostCall
  /\ UNCHANGED rest
  /\ LET p == InvokePrologue(sandbox_store, instance_id, argsOk) IN
     IF p.step = "return" THEN
       /\ Finish("invoke", p.res)
       /\ UNCHANGED <<sandbox_store, memory, table, stack, status, panic_cause>>
     ELSE IF p.step = "panic" THEN
       /\ Panic("invoke", "store_borrowed", stack)
       /\ UNCHANGED <<sandbox_store, memory, table, stack>>
     ELSE
       /\ Len(stack) < limit
       /\ stack' = Append(stack,
            Frame("invoke", p.res.val, instance_id, None,
                  return_val, return_val_len))
       /\ Enter
       /\ UNCHANGED <<sandbox_store, memory, table, status, panic_cause>>

\* (variant: the instance is looked up again when its export has returned)
invoke_return_LookupAtReturn(result) ==
  /\ status = "running"
  /\ UNCHANGED rest
  /\ stack # <<>> /\ Top.op = "invoke"
  /\ LET out == InvokeOutcome(result, memory, Top.return_val, Top.return_val_len) IN
     IF IsSome(sandbox_store) /\ ~HasInstance(Unwrap(sandbox_store), Top.inst)
       THEN /\ memory' = memory
            /\ Finish("invoke", InvalidHandle)
       ELSE /\ memory' = out.mem
            /\ Finish("invoke", out.res)
  /\ stack' = Pop(stack)
  /\ UNCHANGED <<sandbox_store, table, status, panic_cause>>

\* instance.invoke returns.
invoke_return(result) ==
  /\ status = "running"
  /\ UNCHANGED rest
  /\ stack # <<>> /\ Top.op = "invoke"
  /\ LET out == InvokeOutcome(result, memory, Top.return_val, Top.return_val_len) IN
     /\ memory' = out.mem
     /\ Finish("invoke", out.res)
  /\ stack' = Pop(stack)
  /\ UNCHANGED <<sandbox_store, table, status, panic_cause>>

\* ------------------------------------------------------- SandboxContext
\* (variant: the function now in the first slot of the table is called)
supervisor_call_TableSlot(limit) ==
  /\ status = "running"
  /\ UNCHANGED rest
  /\ stack # <<>> /\ Top.op \in {"instance_new", "invoke"}
  /\ Len(stack) < limit
  /\ stack' = Append(stack,
       Frame("dispatch",
             IF IsSome(table) THEN Unwrap(table)[1].ref ELSE Top.thunk,
             0, None, 0, 0))
  /\ Enter
  /\ UNCHANGED <<sandbox_store, memory, table, status, panic_cause>>

\* SandboxContext::invoke: the nested guest (start function or export)
\* calls a supervisor function; the dispatch thunk of the context is called.
supervisor_call(limit) ==
  /\ status = "running"
  /\ UNCHANGED rest
  /\ stack # <<>> /\ Top.op \in {"instance_new", "invoke"}
  /\ Len(stack) < limit
  /\ stack' = Append(stack, Frame("dispatch", Top.thunk, 0, None, 0, 0))
  /\ Enter
  /\ UNCHANGED <<sandbox_store, memory, table, status, panic_cause>>

\* dispatch_thunk.call returns: Ok(result[0].to_i64()) or Err(..).
dispatch_return(ok) ==
  /\ status = "running"
  /\ UNCHANGED rest
  /\ stack # <<>> /\ Top.op = "dispatch"
  /\ stack' = Pop(stack)
  /\ Finish("dispatch", IF ok THEN Ok(0) ELSE Err("dispatch thunk failed"))
  /\ UNCHANGED <<sandbox_store, memory, table, status, panic_cause>>

\* ------------------------------------------- the other Sandbox functions
\* (variant: the error of the store function is swallowed)
StoreCall_ErrorSwallowed(op, valid, after, res) ==
  /\ UNCHANGED <<memory, table, stack>>
  /\ UNCHANGED rest
  /\ IF ~StoreAccessible(sandbox_store) THEN
       /\ Panic(op, "store_borrowed", stack)
       /\ UNCHANGED sandbox_store
     ELSE IF ~valid THEN
       /\ Finish(op, Ok(0))
       /\ UNCHANGED <<sandbox_store, status, panic_cause>>
     ELSE
       /\ sandbox_store' = Some(after)
       /\ Finish(op, res)
       /\ UNCHANGED <<status, panic_cause>>

\* A host function that starts with sandbox_store() or sandbox_store_mut(),
\* then calls the store function and maps its error to a string: `valid` is
\* whether the store function succeeds, `after` the store it leaves.
StoreCall(op, valid, after, res) ==
  /\ UNCHANGED <<memory, table, stack>>
  /\ UNCHANGED rest
  /\ IF ~StoreAccessible(sandbox_store) THEN
       /\ Panic(op, "store_borrowed", stack)
       /\ UNCHANGED sandbox_store
     ELSE IF ~valid THEN
       /\ Finish(op, InvalidHandle)
       /\ UNCHANGED <<sandbox_store, status, panic_cause>>
     ELSE
       /\ sandbox_store' = Some(after)
       /\ Finish(op, res)
       /\ UNCHANGED <<status, panic_cause>>

\* The store of the slot, for the arguments of StoreCall (they are not
\* evaluated into the result when the slot is empty).
TheStore == IF IsSome(sandbox_store) THEN Unwrap(sandbox_store) ELSE EmptyStore

instance_teardown(instance_id) ==
  /\ CanHostCall
  /\ StoreCall("instance_teardown",
               HasInstance(TheStore, instance_id),
               StoreInstanceTeardown(TheStore, instance_id), Ok(0))

\* found: whether the instance has a global of that name.
get_global_val(instance_idx, found) ==
  /\ CanHostCall
  /\ StoreCall("get_global_val",
               HasInstance(TheStore, instance_idx),
               TheStore, Ok(IF found THEN 1 ELSE 0))

memory_new(initial, maximum) ==
  /\ CanHostCall
  /\ IsSome(sandbox_store) /\ initial <= maximum
       => Len(TheStore.memories) < MaxMemories
  /\ IF IsSome(sandbox_store) /\ initial > maximum
       THEN /\ Finish("memory_new", Err("new_memory failed"))
            /\ UNCHANGED <<sandbox_store, memory, table, stack, status, panic_cause>>
            /\ UNCHANGED rest
       ELSE LET r == StoreNewMemory(TheStore, initial) IN
            StoreCall("memory_new", TRUE, r.store, Ok(r.id))

memory_teardown(memory_id) ==
  /\ CanHostCall
  /\ StoreCall("memory_teardown",
               HasMemory(TheStore, memory_id),
               StoreMemoryTeardown(TheStore, memory_id), Ok(0))

\* ------------------------------------------------- memory_get, memory_set
\* SandboxedMemory::read: len bytes of the nested memory from offset, or an
\* error when [offset, offset + len) does not lie inside it.
SandboxedMemoryRead(data, offset, len) == read_memory(data, offset, len)

\* SandboxedMemory::write_from: copy buffer into the nested memory at offset,
\* or an error and no change when the range does not lie inside it.
SandboxedMemoryWriteFrom(data, offset, buffer) ==
  write_memory_from(data, offset, buffer)

\* (variant: the outer range is not checked, the bytes that fit are copied)
MemoryGetOutcome_OuterUnchecked(store, mem, memory_id, offset, buf_ptr, buf_len) ==
  IF ~HasMemory(store, memory_id) THEN [mem |-> mem, res |-> InvalidHandle]
  ELSE LET r == SandboxedMemoryRead(StoreMemory(store, memory_id), offset, buf_len) IN
       IF ~r.ok THEN [mem |-> mem, res |-> Ok(ERR_OUT_OF_BOUNDS)]
       ELSE [mem |-> [a \in DOMAIN mem |->
                        IF a >= buf_ptr /\ a < buf_ptr + buf_len
                          THEN r.data[a - buf_ptr + 1] ELSE mem[a]],
             res |-> Ok(ERR_OK)]

\* (variant: the bytes land one address further)
MemoryGetOutcome_Shifted(store, mem, memory_id, offset, buf_ptr, buf_len) ==
  IF ~HasMemory(store, memory_id) THEN [mem |-> mem, res |-> InvalidHandle]
  ELSE LET r == SandboxedMemoryRead(StoreMemory(store, memory_id), offset, buf_len) IN
       IF ~r.ok THEN [mem |-> mem, res |-> Ok(ERR_OUT_OF_BOUNDS)]
       ELSE LET w == write_memory_from(mem, buf_ptr, r.data) IN
            IF ~w.ok THEN [mem |-> mem, res |-> Ok(ERR_OUT_OF_BOUNDS)]
            ELSE [mem |-> [a \in DOMAIN mem |->
                             IF a > buf_ptr /\ a < buf_ptr + buf_len
                               THEN r.data[a - buf_ptr] ELSE mem[a]],
                  res |-> Ok(ERR_OK)]

\* memory_get after the store has been borrowed: the memory is looked up
\* (an error if the id names none), len bytes are read from the nested
\* memory at offset and written to the outer memory at buf_ptr; a failure
\* of either copy is the value ERR_OUT_OF_BOUNDS.
MemoryGetOutcome(store, mem, memory_id, offset, buf_ptr, buf_len) ==
  IF ~HasMemory(store, memory_id) THEN [mem |-> mem, res |-> InvalidHandle]
  ELSE LET r == SandboxedMemoryRead(StoreMemory(store, memory_id), offset, buf_len) IN
       IF ~r.ok THEN [mem |-> mem, res |-> Ok(ERR_OUT_OF_BOUNDS)]
       ELSE LET w == write_memory_from(mem, buf_ptr, r.data) IN
            IF ~w.ok THEN [mem |-> mem, res |-> Ok(ERR_OUT_OF_BOUNDS)]
                     ELSE [mem |-> w.mem, res |-> Ok(ERR_OK)]

memory_get(memory_id, offset, buf_ptr, buf_len) ==
  /\ CanHostCall
  /\ UNCHANGED <<table, stack, sandbox_store>>
  /\ UNCHANGED rest
  /\ IF ~StoreAccessible(sandbox_store) THEN
       /\ Panic("memory_get", "store_borrowed", stack)
       /\ UNCHANGED memory
     ELSE
       LET out == MemoryGetOutcome(Unwrap(sandbox_store), memory,
                                   memory_id, offset, buf_ptr, buf_len) IN
       /\ memory' = out.mem
       /\ Finish("memory_get", out.res)
       /\ UNCHANGED <<status, panic_cause>>

\* memory_set after the store has been borrowed: the memory is looked up,
\* len bytes are read from the outer memory at val_ptr and written to the
\* nested memory at offset; a failure of either copy is ERR_OUT_OF_BOUNDS.
MemorySetOutcome(store, mem, memory_id, offset, val_ptr, val_len) ==
  IF ~HasMemory(store, memory_id) THEN [store |-> store, res |-> InvalidHandle]
  ELSE LET r == read_memory(mem, val_ptr, val_len) IN
       IF ~r.ok THEN [store |-> store, res |-> Ok(ERR_OUT_OF_BOUNDS)]
       ELSE LET w == SandboxedMemoryWriteFrom(StoreMemory(store, memory_id),
                                              offset, r.data) IN
            IF ~w.ok THEN [store |-> store, res |-> Ok(ERR_OUT_OF_BOUNDS)]
            ELSE [store |-> [store EXCEPT !.memories[memory_id + 1].data = w.mem],
                  res   |-> Ok(ERR_OK)]

memory_set(memory_id, offset, val_ptr, val_len) ==
  /\ CanHostCall
  /\ UNCHANGED <<table, stack, memory>>
  /\ UNCHANGED rest
  /\ IF ~StoreAccessible(sandbox_store) THEN
       /\ Panic("memory_set", "store_borrowed", stack)
       /\ UNCHANGED sandbox_store
     ELSE
       LET out == MemorySetOutcome(Unwrap(sandbox_store), memory,
                                   memory_id, offset, val_ptr, val_len) IN
       /\ sandbox_store' = Some(out.store)
       /\ Finish("memory_set", out.res)
       /\ UNCHANGED <<status, panic_cause>>

\* ------------------------------------------------------- FunctionContext
\* The functions of FunctionContext do not use the sandbox store.
\* read_memory_into: dest is a buffer of len bytes (of zeros).
read_memory_into(address, len) ==
  /\ CanHostCall
  /\ LET r == util_read_memory_into(memory, address, [i \in 1 .. len |-> 0]) IN
     /\ dest' = r.data
     /\ Finish("read_memory_into", IF r.ok THEN Ok(0) ELSE Err("OutOfBounds"))
  /\ UNCHANGED <<sandbox_store, memory, table, stack, status, panic_cause>>
  /\ UNCHANGED <<panic_message, allocator, taken>>

\* HostContext::write_memory called by the guest.
host_write_memory(address, data) ==
  /\ CanHostCall
  /\ LET w == write_memory(memory, address, data) IN
     /\ memory' = w.mem
     /\ Finish("write_memory", IF w.ok THEN Ok(0) ELSE Err("OutOfBounds"))
  /\ UNCHANGED <<sandbox_store, table, stack, status, panic_cause>>
  /\ UNCHANGED rest

\* allocate_memory: the allocator is given the slice of the whole outer
\* memory, of the size the memory has when the function is called.
allocate_memory(size) ==
  /\ CanHostCall
  /\ LET a == AllocatorAllocate(allocator, memory, size) IN
     /\ allocator' = a.alloc
     /\ Finish("allocate_memory", a.res)
  /\ UNCHANGED <<sandbox_store, memory, table, stack, status, panic_cause>>
  /\ UNCHANGED <<panic_message, dest, taken>>

deallocate_memory(ptr) ==
  /\ CanHostCall
  /\ LET a == AllocatorDeallocate(allocator, memory, ptr) IN
     /\ allocator' = a.alloc
     /\ Finish("deallocate_memory", a.res)
  /\ UNCHANGED <<sandbox_store, memory, table, stack, status, panic_cause>>
  /\ UNCHANGED <<panic_message, dest, taken>>

\* (variant: a message already registered is kept)
register_panic_error_message_KeepFirst(message) ==
  /\ CanHostCall
  /\ panic_message' = (IF IsSome(panic_message) THEN panic_message ELSE Some(message))
  /\ Finish("register_panic_error_message", Ok(0))
  /\ UNCHANGED <<sandbox_store, memory, table, stack, status, panic_cause>>
  /\ UNCHANGED <<allocator, dest, taken>>

register_panic_error_message(message) ==
  /\ CanHostCall
  /\ panic_message' = Some(message)
  /\ Finish("register_panic_error_message", Ok(0))
  /\ UNCHANGED <<sandbox_store, memory, table, stack, status, panic_cause>>
  /\ UNCHANGED <<allocator, dest, taken>>

\* HostState::take_panic_message, called by the owner of the host state
\* when no host call is in progress.
take_panic_message ==
  /\ stack = <<>>
  /\ status \in {"running", "panicked"}
  /\ taken' = panic_message
  /\ panic_message' = None
  /\ outcome' = [op |-> "take_panic_message", res |-> Ok(0)]
  /\ UNCHANGED <<sandbox_store, memory, table, stack, status, panic_cause>>
  /\ UNCHANGED <<allocator, dest>>

\* ------------------------------------------------------------ the guest
\* The outer guest grows its memory by one page (memory.grow).
memory_grow ==
  /\ CanHostCall
  /\ MemSize(memory) < MemBytes + MaxGrow * PageBytes
  /\ memory' = GrowMemory(memory)
  /\ Enter
  /\ UNCHANGED <<sandbox_store, table, stack, status, panic_cause>>
  /\ UNCHANGED rest

\* The outer guest overwrites a slot of its table (table.set).
table_set(index, val) ==
  /\ CanHostCall
  /\ IsSome(table)
  /\ index + 1 <= Len(Unwrap(table))
  /\ Unwrap(table)[index + 1] # val
  /\ table' = Some([Unwrap(table) EXCEPT ![index + 1] = val])
  /\ Enter
  /\ UNCHANGED <<sandbox_store, memory, stack, status, panic_cause>>
  /\ UNCHANGED rest

\* ------------------------------------------------------------ unwinding
\* (variant: instance_new turns the caught panic into a status code)
unwind_PanicAsStatus ==
  /\ status = "unwinding"
  /\ UNCHANGED rest
  /\ stack # <<>>
  /\ UNCHANGED <<memory, table, panic_cause>>
  /\ \/ /\ Top.op = "instance_new"
        /\ sandbox_store' = RestoreStore(sandbox_store, Top.store, TRUE)
        /\ stack' = Pop(stack)
        /\ status' = "running"
        /\ outcome' = [op |-> "instance_new", res |-> Ok(ERR_EXECUTION)]
     \/ /\ Top.op = "invoke"
        /\ stack' = Pop(stack)
        /\ status' = (IF Pop(stack) = <<>> THEN "panicked" ELSE "unwinding")
        /\ outcome' = [op |-> "invoke", res |-> Panicked]
        /\ UNCHANGED sandbox_store
     \/ /\ Top.op = "dispatch"
        /\ stack' = Pop(stack)
        /\ outcome' = [op |-> "dispatch", res |-> Panicked]
        /\ UNCHANGED <<sandbox_store, status>>
     \/ /\ Top.op = "dispatch"
        /\ status' = "aborted"
        /\ Enter
        /\ UNCHANGED <<sandbox_store, stack>>

\* The panic passes the innermost frame.  instance_new: catch_unwind has
\* caught it, the store is put back, resume_unwind.  invoke: nothing is
\* caught.  dispatch: the frames of the engine that runs the outer guest lie
\* between the host function that panicked and SandboxContext::invoke; the
\* panic either unwinds through them or aborts the process there.
unwind ==
  /\ status = "unwinding"
  /\ UNCHANGED rest
  /\ stack # <<>>
  /\ UNCHANGED <<memory, table, panic_cause>>
  /\ \/ /\ Top.op = "instance_new"
        /\ sandbox_store' = RestoreStore(sandbox_store, Top.store, TRUE)
        /\ stack' = Pop(stack)
        /\ status' = (IF Pop(stack) = <<>> THEN "panicked" ELSE "unwinding")
        /\ outcome' = [op |-> "instance_new", res |-> Panicked]
     \/ /\ Top.op = "invoke"
        /\ stack' = Pop(stack)
        /\ status' = (IF Pop(stack) = <<>> THEN "panicked" ELSE "unwinding")
        /\ outcome' = [op |-> "invoke", res |-> Panicked]
        /\ UNCHANGED sandbox_store
     \/ /\ Top.op = "dispatch"
        /\ stack' = Pop(stack)
        /\ outcome' = [op |-> "dispatch", res |-> Panicked]
        /\ UNCHANGED <<sandbox_store, status>>
     \/ /\ Top.op = "dispatch"
        /\ status' = "aborted"
        /\ Enter
        /\ UNCHANGED <<sandbox_store, stack>>

\* ------------------------------------------------------------------ next
\* limit bounds the depth of the stack: a call that would push a frame
\* beyond it is not taken.
\* The functions on instances.
Next ==
  \/ \E id \in ThunkIds, envOk \in BOOLEAN : instance_new(id, envOk, MaxDepth)
  \/ \E result \in InstantiationResults : instantiate_return(result)
  \/ instantiate_panic
  \/ \E id \in InstanceIds, argsOk \in BOOLEAN, buf \in ReturnBufs :
       invoke(id, argsOk, buf[1], buf[2], MaxDepth)
  \/ \E result \in ExportResults : invoke_return(result)
  \/ supervisor_call(MaxDepth)
  \/ \E ok \in BOOLEAN : dispatch_return(ok)
  \/ \E id \in InstanceIds : instance_teardown(id)
  \/ \E id \in InstanceIds, found \in BOOLEAN : get_global_val(id, found)
  \/ unwind

Spec == Init /\ [][Next]_vars

\* The functions on memories, and instance_new, whose start function may
\* call them through its supervisor functions.
NextMemory ==
  \/ \E id \in ThunkIds, envOk \in BOOLEAN : instance_new(id, envOk, MaxDepth)
  \/ \E result \in InstantiationResults : instantiate_return(result)
  \/ instantiate_panic
  \/ supervisor_call(MaxDepth)
  \/ \E ok \in BOOLEAN : dispatch_return(ok)
  \/ \E lim \in MemoryLimits : memory_new(lim[1], lim[2])
  \/ \E id \in MemoryIds : memory_teardown(id)
  \/ unwind

SpecMemory == Init /\ [][NextMemory]_vars

\* Instances only (no memories, no globals), created and invoked at a
\* greater depth, with two dispatch thunks to choose from.
NextNest ==
  \/ \E id \in ThunkIds, envOk \in BOOLEAN : instance_new(id, envOk, MaxNest)
  \/ \E result \in InstantiationResults : instantiate_return(result)
  \/ instantiate_panic
  \/ \E id \in InstanceIds, argsOk \in BOOLEAN :
       invoke(id, argsOk, NestBuf[1], NestBuf[2], MaxNest)
  \/ \E result \in ExportResults : invoke_return(result)
  \/ supervisor_call(MaxNest)
  \/ \E ok \in BOOLEAN : dispatch_return(ok)
  \/ \E id \in InstanceIds : instance_teardown(id)
  \/ unwind

SpecNest == InitNest /\ [][NextNest]_vars

\* The functions on nested memories and their bytes.
NextAccess ==
  \/ \E lim \in MemoryLimits : memory_new(lim[1], lim[2])
  \/ \E id \in MemoryIds : memory_teardown(id)
  \/ \E id \in MemoryIds, offset \in Offsets, ptr \in Pointers, len \in Lengths :
       memory_get(id, offset, ptr, len)
  \/ \E id \in MemoryIds, offset \in Offsets, ptr \in Pointers, len \in Lengths :
       memory_set(id, offset, ptr, len)

SpecAccess == InitAccess /\ [][NextAccess]_vars

\* Instances and memories of one store: created, used and torn down by the
\* runtime, no supervisor function being called by the nested guest and no
\* value returned by its exports.
NextHandles ==
  \/ \E id \in ThunkIds, envOk \in BOOLEAN : instance_new(id, envOk, MaxDepth)
  \/ \E result \in InstantiationResults : instantiate_return(result)
  \/ \E id \in InstanceIds, argsOk \in BOOLEAN :
       invoke(id, argsOk, NestBuf[1], NestBuf[2], MaxDepth)
  \/ \E result \in {[kind |-> "none"], [kind |-> "err"]} : invoke_return(result)
  \/ \E id \in InstanceIds : instance_teardown(id)
  \/ \E id \in InstanceIds, found \in BOOLEAN : get_global_val(id, found)
  \/ \E lim \in MemoryLimits : memory_new(lim[1], lim[2])
  \/ \E id \in MemoryIds : memory_teardown(id)
  \/ \E id \in MemoryIds, offset \in Offsets, ptr \in Pointers, len \in Lengths :
       memory_get(id, offset, ptr, len)
  \/ \E id \in MemoryIds, offset \in Offsets, ptr \in Pointers, len \in Lengths :
       memory_set(id, offset, ptr, len)

SpecHandles == Init /\ [][NextHandles]_vars

\* The host state across the host calls of one runtime call: the panic
\* message, the allocator and the store.
NextState ==
  \/ \E message \in Messages : register_panic_error_message(message)
  \/ take_panic_message
  \/ \E size \in AllocSizes : allocate_memory(size)
  \/ \E ptr \in Pointers : deallocate_memory(ptr)
  \/ \E lim \in MemoryLimits : memory_new(lim[1], lim[2])
  \/ \E id \in MemoryIds : memory_teardown(id)
  \/ memory_grow

SpecState == Init /\ [][NextState]_vars

\* The accesses to the outer memory, which the guest may grow.
NextBytes ==
  \/ \E address \in Pointers, len \in Lengths : read_memory_into(address, len)
  \/ \E address \in Pointers, data \in WriteData : host_write_memory(address, data)
  \/ memory_grow

SpecBytes == InitAccess /\ [][NextBytes]_vars

\* what the guest stores in a slot of its table
TableSetValues == {Slot("FuncRef", 3), Slot("ExternRef", 0)}
\* the slots that instance_new is given as dispatch_thunk_id
ThunkSlots == {0, 1}

\* Instances created from the slots of a table that the guest overwrites,
\* invoked and torn down, their exports calling supervisor functions.
NextThunk ==
  \/ \E id \in ThunkSlots : instance_new(id, TRUE, MaxDepth)
  \/ instantiate_return("Ok")
  \/ \E id \in InstanceIds : invoke(id, TRUE, NestBuf[1], NestBuf[2], MaxDepth)
  \/ invoke_return([kind |-> "none"])
  \/ supervisor_call(MaxDepth)
  \/ dispatch_return(TRUE)
  \/ \E val \in TableSetValues : table_set(0, val)
  \/ \E id \in InstanceIds : instance_teardown(id)
  \/ unwind

SpecThunk == InitNest /\ [][NextThunk]_vars

\* Every function that looks at the outer memory, the guest growing the
\* memory between the calls: at top level and in the supervisor function
\* that the export of an invoke calls.  The accesses are those at Edge, the
\* address whose ranges end beyond the size the memory has at the start.
\* an invoke and the supervisor function its export calls: two frames
GrowDepth == 2

NextGrow ==
  \/ instance_new(0, TRUE, GrowDepth)
  \/ instantiate_return("Ok")
  \/ invoke(0, TRUE, EdgeBuf[1], EdgeBuf[2], GrowDepth)
  \/ invoke_return(EdgeResult)
  \/ supervisor_call(GrowDepth)
  \/ dispatch_return(TRUE)
  \/ \E len \in Lengths : read_memory_into(Edge, len)
  \/ host_write_memory(Edge, EdgeData)
  \/ \E size \in AllocSizes : allocate_memory(size)
  \/ deallocate_memory(0)
  \/ memory_new(1, 2)
  \/ \E len \in Lengths : memory_get(0, 0, Edge, len)
  \/ \E len \in Lengths : memory_set(0, 0, Edge, len)
  \/ memory_grow
  \/ unwind

SpecGrow == Init /\ [][NextGrow]_vars

\* ================================================================ claims
InstanceNewFrames == { i \in 1 .. Len(stack) : stack[i].op = "instance_new" }
HostFrames ==
  { i \in 1 .. Len(stack) : stack[i].op \in {"instance_new", "invoke"} }

\* The number of places that hold a store: the slot of the host state and
\* the local variable of every instance_new in progress.
StoreCopies ==
  (IF IsSome(sandbox_store) THEN 1 ELSE 0)
    + Cardinality({ i \in InstanceNewFrames : IsSome(stack[i].store) })

\* The store, wherever it is (meaningful when StoreCopies = 1).
CurrentStore ==
  IF IsSome(sandbox_store) THEN Unwrap(sandbox_store)
  ELSE Unwrap(stack[CHOOSE i \in InstanceNewFrames : IsSome(stack[i].store)].store)

\* t is s, or s with one more instance registered at the end.
SameOrOneMoreInstance(s, t) ==
  \/ t = s
  \/ /\ t.memories = s.memories
     /\ Len(t.instances) = Len(s.instances) + 1
     /\ SubSeq(t.instances, 1, Len(s.instances)) = s.instances
     /\ t.instances[Len(t.instances)].live

\* As long as the process lives there is exactly one store; with no host
\* call in progress it is in the host state; the slot is empty only while
\* an instance_new is in progress.
StoreHeldOnce ==
  status # "aborted" =>
    /\ StoreCopies = 1
    /\ stack = <<>> => IsSome(sandbox_store)
    /\ ~IsSome(sandbox_store) => InstanceNewFrames # {}

StoreOps == {"instance_teardown", "memory_new", "memory_teardown"}

\* C1: store restoration.  Whenever a top-level instance_new or invoke has
\* finished, by returning an id, a status code or a hard error or by
\* unwinding with a panic raised inside nested instantiation, the host
\* state holds the store exactly once: the slot is non-empty, and no step
\* of instance_new or invoke (entering, returning, unwinding) changes the
\* store other than by registering the new instance.  The slot is empty
\* only within an instance_new in progress.
C1_StoreRestored ==
  [][ /\ StoreHeldOnce
      /\ StoreHeldOnce'
      /\ (status' # "aborted" /\ outcome'.op \notin StoreOps)
           => SameOrOneMoreInstance(CurrentStore, CurrentStore') ]_vars

\* A top-level instance_new has ended by a panic, after an instance had been
\* registered: the store is back in the host state, with the instance.
C1_Witness ==
  /\ status = "panicked"
  /\ stack = <<>>
  /\ outcome = [op |-> "instance_new", res |-> Panicked]
  /\ IsSome(sandbox_store)
  /\ Len(Unwrap(sandbox_store).instances) > 0

\* C2: the store is never accessed while it is moved out: the panic of
\* sandbox_store() / sandbox_store_mut() / take ("sandbox store is only empty
\* when temporarily borrowed") never happens, whatever host calls the guest
\* makes, reentrant ones included.
C2_NeverAccessedWhileBorrowed == panic_cause # "store_borrowed"

\* C3 as claimed: whenever guest code runs under instance_new or under
\* invoke, the store is moved out of the host state.
C3_MovedOutAcrossGuestCalls ==
  (status = "running" /\ HostFrames # {}) => ~IsSome(sandbox_store)

\* C3, amended: the store is moved out of the host state exactly while an
\* instance_new is in progress (from before the start function runs until
\* it has returned or unwound); invoke does not move it: while the export
\* of an invoke runs, the store is in the host state.
C3_MovedOutAcrossInstantiation ==
  status # "aborted" =>
    /\ InstanceNewFrames # {} <=> ~IsSome(sandbox_store)
    /\ (stack # <<>> /\ Top.op = "invoke") => IsSome(sandbox_store)

\* An export runs under invoke, its supervisor function has called
\* instance_new, the start function runs: the store is in the local
\* variable of instance_new.
C3_Witness ==
  /\ status = "running"
  /\ Len(stack) = 3
  /\ stack[1].op = "invoke" /\ stack[2].op = "dispatch"
  /\ stack[3].op = "instance_new" /\ IsSome(stack[3].store)
  /\ ~IsSome(sandbox_store)

\* ids of the instances whose export is running
InvokedIds ==
  { stack[i].inst : i \in { j \in 1 .. Len(stack) : stack[j].op = "invoke" } }

\* The step is the return (not the unwinding) of the innermost call op.
Returns(op) ==
  /\ status = "running" /\ status' = "running"
  /\ stack # <<>> /\ Top.op = op
  /\ stack' = Pop(stack)

\* An instance is removed from the store by instance_teardown only.
RemovedByTeardownOnly ==
  \A id \in InstanceIds :
    ( /\ status' # "aborted"
      /\ StoreCopies = 1 /\ StoreCopies' = 1
      /\ HasInstance(CurrentStore, id)
      /\ ~HasInstance(CurrentStore', id) )
    => instance_teardown(id)

\* C4: recursive creation.  When an instance_new that was called (through
\* the dispatch thunk) by the supervisor code of a running export succeeds,
\* at whatever depth, the store is back in the host state, the new instance
\* is registered in it under an id distinct from the ids of the instances
\* being invoked and of every instance registered before, and those stay as
\* they were; when an invoke returns the store is in the host state,
\* unchanged; and no instance leaves the store except by instance_teardown.
\* So after the outer invoke both instances are registered, under two ids.
C4_RecursiveCreation ==
  [][ /\ ( /\ Returns("instance_new")
           /\ InvokedIds # {}
           /\ outcome'.res.kind = "ok" /\ outcome'.res.val >= 0 )
         => LET id  == outcome'.res.val
                old == Unwrap(Top.store) IN
            /\ IsSome(sandbox_store')
            /\ HasInstance(Unwrap(sandbox_store'), id)
            /\ \A a \in InvokedIds : id # a
            /\ id >= Len(old.instances)
            /\ SameOrOneMoreInstance(old, Unwrap(sandbox_store'))
      /\ Returns("invoke")
         => IsSome(sandbox_store') /\ sandbox_store' = sandbox_store
      /\ RemovedByTeardownOnly ]_vars

\* Two levels deep: invoke of instance 0, whose supervisor code invokes
\* instance 0 again, whose supervisor code has just created instance 1.
C4_Witness ==
  /\ status = "running"
  /\ Len(stack) = 4
  /\ stack[1].op = "invoke" /\ stack[1].inst = 0
  /\ stack[3].op = "invoke" /\ stack[4].op = "dispatch"
  /\ outcome = [op |-> "instance_new", res |-> Ok(1)]
  /\ IsSome(sandbox_store)
  /\ HasInstance(Unwrap(sandbox_store), 0)
  /\ HasInstance(Unwrap(sandbox_store), 1)

\* The slot of the table holds a function.
FunctionSlot(id) ==
  /\ IsSome(table)
  /\ id + 1 <= Len(Unwrap(table))
  /\ Unwrap(table)[id + 1].kind = "FuncRef"
  /\ Unwrap(table)[id + 1].ref # 0

\* The table has the slot and it holds something that is not a function.
NonFunctionSlot(id) ==
  /\ IsSome(table)
  /\ id + 1 <= Len(Unwrap(table))
  /\ ~FunctionSlot(id)

\* C5: outcome mapping of instance_new, the dispatch thunk slot being valid.
\* When the guest environment does not decode (the decode is reached, the
\* store being in the host state), the call returns Ok(ERR_MODULE) and
\* changes nothing.  When it decodes, instantiation starts with the function
\* of the slot as dispatch thunk; if it succeeds the instance is registered
\* with that thunk and its id is returned; if the start function traps
\* Ok(ERR_EXECUTION) is returned, on any other failure Ok(ERR_MODULE), and
\* in both cases the store is put back as it was.
C5_InstanceNewOutcome ==
  [][ /\ \A id \in ThunkIds :
           ( /\ FunctionSlot(id) /\ IsSome(sandbox_store)
             /\ instance_new(id, FALSE, MaxNest) )
           => /\ outcome' = [op |-> "instance_new", res |-> Ok(ERR_MODULE)]
              /\ UNCHANGED <<sandbox_store, stack, status>>
      /\ \A id \in ThunkIds :
           ( /\ FunctionSlot(id) /\ IsSome(sandbox_store)
             /\ instance_new(id, TRUE, MaxNest) )
           => /\ stack' # stack
              /\ stack'[Len(stack')].op = "instance_new"
              /\ stack'[Len(stack')].thunk = Unwrap(table)[id + 1].ref
      /\ instantiate_return("Ok")
           => LET id == outcome'.res.val IN
              /\ outcome'.op = "instance_new" /\ outcome'.res.kind = "ok"
              /\ id = Len(Unwrap(Top.store).instances)
              /\ IsSome(sandbox_store')
              /\ HasInstance(Unwrap(sandbox_store'), id)
              /\ StoreDispatchThunk(Unwrap(sandbox_store'), id) = Top.thunk
              /\ SameOrOneMoreInstance(Unwrap(Top.store), Unwrap(sandbox_store'))
      /\ instantiate_return("StartTrapped")
           => /\ outcome' = [op |-> "instance_new", res |-> Ok(ERR_EXECUTION)]
              /\ sandbox_store' = Top.store
      /\ instantiate_return("ModuleError")
           => /\ outcome' = [op |-> "instance_new", res |-> Ok(ERR_MODULE)]
              /\ sandbox_store' = Top.store ]_vars

\* An instance_new has returned ERR_EXECUTION after an instance had been
\* registered with the second function of the table as its thunk.
C5_Witness ==
  /\ status = "running"
  /\ outcome = [op |-> "instance_new", res |-> Ok(ERR_EXECUTION)]
  /\ IsSome(sandbox_store)
  /\ Unwrap(sandbox_store).instances = <<[live |-> TRUE, thunk |-> 2]>>

\* C6 as claimed: instance_new with a dispatch_thunk_table_index that
\* points to a slot that is not a function returns the status code
\* ERR_MODULE, and registers nothing.
C6_NonFunctionSlotIsModuleError ==
  [][ \A id \in ThunkIds, envOk \in BOOLEAN :
        (NonFunctionSlot(id) /\ instance_new(id, envOk, MaxDepth))
        => /\ outcome' = [op |-> "instance_new", res |-> Ok(ERR_MODULE)]
           /\ UNCHANGED sandbox_store ]_vars

\* C6, amended: such a call returns the hard error "dispatch_thunk_id
\* should point to actual func", not a status code; it registers nothing
\* and starts no instantiation.
C6_NonFunctionSlotIsHardError ==
  [][ \A id \in ThunkIds, envOk \in BOOLEAN :
        (NonFunctionSlot(id) /\ instance_new(id, envOk, MaxDepth))
        => /\ outcome' = [op |-> "instance_new",
                          res |-> Err("dispatch_thunk_id should point to actual func")]
           /\ UNCHANGED <<sandbox_store, stack>> ]_vars

C6_Witness ==
  /\ outcome = [op |-> "instance_new",
                res |-> Err("dispatch_thunk_id should point to actual func")]
  /\ sandbox_store = Some(EmptyStore)
  /\ stack = <<>>

\* C7: a failed lookup of the dispatch thunk (no table, index outside the
\* table, slot not a function) makes instance_new return a hard error, the
\* one of its case, whether or not the guest environment decodes; the
\* store is not touched (neither read, nor moved out, nor changed), no
\* instantiation starts and no panic is raised.
C7_ThunkLookupFailureIsHardError ==
  [][ \A id \in ThunkIds, envOk \in BOOLEAN :
        (~FunctionSlot(id) /\ instance_new(id, envOk, MaxDepth))
        => /\ outcome'.op = "instance_new"
           /\ outcome'.res.kind = "err"
           /\ ~IsSome(table) =>
                outcome'.res.msg = "Runtime doesn't have a table; sandbox is unavailable"
           /\ (IsSome(table) /\ id + 1 > Len(Unwrap(table))) =>
                outcome'.res.msg = "dispatch_thunk_id is out of bounds"
           /\ NonFunctionSlot(id) =>
                outcome'.res.msg = "dispatch_thunk_id should point to actual func"
           /\ UNCHANGED <<sandbox_store, stack, memory, status, panic_cause>> ]_vars

\* The runtime has no table: instance_new has returned the hard error at
\* top level and the store is in the host state.
C7_Witness ==
  /\ outcome = [op |-> "instance_new",
                res |-> Err("Runtime doesn't have a table; sandbox is unavailable")]
  /\ IsSome(sandbox_store)
  /\ stack = <<>>
  /\ status = "running"

\* C8: when the export of an invoke fails, invoke returns Ok(ERR_EXECUTION)
\* and leaves the store as it is, the instance registered; an instance
\* leaves the store by instance_teardown only; and on a registered id
\* get_global_val succeeds and invoke starts the export.
C8_FailedInvokeKeepsInstance ==
  [][ /\ invoke_return([kind |-> "err"])
         => /\ outcome' = [op |-> "invoke", res |-> Ok(ERR_EXECUTION)]
            /\ IsSome(sandbox_store')
            /\ sandbox_store' = sandbox_store
      /\ RemovedByTeardownOnly
      /\ \A id \in InstanceIds :
           (CanHostCall /\ IsSome(sandbox_store) /\ HasInstance(TheStore, id))
           => /\ \A found \in BOOLEAN :
                   get_global_val(id, found) => outcome'.res.kind = "ok"
              /\ \A buf \in ReturnBufs :
                   invoke(id, TRUE, buf[1], buf[2], MaxDepth)
                   => /\ Len(stack') = Len(stack) + 1
                      /\ stack'[Len(stack')].op = "invoke"
                      /\ stack'[Len(stack')].inst = id ]_vars

\* A top-level invoke of the only instance ever registered has returned
\* ERR_EXECUTION and the instance is registered.
C8_Witness ==
  /\ status = "running"
  /\ stack = <<>>
  /\ outcome = [op |-> "invoke", res |-> Ok(ERR_EXECUTION)]
  /\ IsSome(sandbox_store)
  /\ Len(Unwrap(sandbox_store).instances) = 1
  /\ HasInstance(Unwrap(sandbox_store), 0)

\* The export of the innermost invoke returns a value whose encoding is
\* longer than return_val_len.
TooSmall(result) ==
  /\ result.kind = "some"
  /\ Len(EncodeReturnValue(result.val)) > Top.return_val_len

\* C9: when the value returned by the export does not fit return_val_len,
\* invoke does not return ERR_OK and the outer memory is not changed.
C9_TooSmallWritesNothing ==
  [][ \A result \in ExportResults :
        (stack # <<>> /\ TooSmall(result) /\ invoke_return(result))
        => /\ outcome'.op = "invoke"
           /\ outcome'.res # Ok(ERR_OK)
           /\ memory' = memory ]_vars

\* A value did not fit, after another value had been written at address 0.
C9_Witness ==
  /\ outcome = [op |-> "invoke", res |-> Err("Return value buffer is too small")]
  /\ memory[0] = 1
  /\ memory[2] = 2

StatusCodes == {ERR_OK, ERR_OUT_OF_BOUNDS, ERR_EXECUTION, ERR_MODULE}

\* C10 as claimed: a return buffer that is too small makes invoke return
\* one of the status codes as an ordinary value.
C10_TooSmallIsStatusCode ==
  [][ \A result \in ExportResults :
        (stack # <<>> /\ TooSmall(result) /\ invoke_return(result))
        => /\ outcome'.res.kind = "ok"
           /\ outcome'.res.val \in StatusCodes ]_vars

\* C10, amended: a return buffer that is too small makes invoke return the
\* hard error "Return value buffer is too small", not a status code.
C10_TooSmallIsHardError ==
  [][ \A result \in ExportResults :
        (stack # <<>> /\ TooSmall(result) /\ invoke_return(result))
        => outcome' = [op |-> "invoke",
                       res |-> Err("Return value buffer is too small")] ]_vars

\* A top-level invoke has returned that error to the runtime.
C10_Witness ==
  /\ status = "running"
  /\ stack = <<>>
  /\ outcome = [op |-> "invoke", res |-> Err("Return value buffer is too small")]

\* The export of the innermost invoke returns a value whose encoding is not
\* longer than return_val_len.
Fits(result) ==
  /\ result.kind = "some"
  /\ Len(EncodeReturnValue(result.val)) <= Top.return_val_len

\* [address, address + len) lies inside the memory.
InMemory(mem, address, len) == address + len <= MemSize(mem)

\* `after` is `mem` with exactly the bytes [address, address + Len(data))
\* replaced by data: same size, every other byte as it was.
ExactlyWritten(mem, after, address, data) ==
  /\ DOMAIN after = DOMAIN mem
  /\ \A a \in DOMAIN mem :
       after[a] = IF a >= address /\ a < address + Len(data)
                    THEN data[a - address + 1] ELSE mem[a]

\* C11 as claimed: when the export of an invoke returns a value whose
\* encoding fits return_val_len, invoke writes exactly the encoded bytes at
\* return_val in the outer memory, changes no other byte and returns
\* Ok(ERR_OK); when the export returns no value, invoke returns Ok(ERR_OK)
\* and writes nothing.
C11_FittingValueWritten ==
  [][ \A result \in ExportResults :
        (stack # <<>> /\ invoke_return(result))
        => /\ Fits(result)
                => /\ outcome' = [op |-> "invoke", res |-> Ok(ERR_OK)]
                   /\ ExactlyWritten(memory, memory', Top.return_val,
                                     EncodeReturnValue(result.val))
           /\ result.kind = "none"
                => /\ outcome' = [op |-> "invoke", res |-> Ok(ERR_OK)]
                   /\ memory' = memory ]_vars

\* C11, amended: that holds when the encoded bytes, starting at return_val,
\* lie inside the outer memory; when the encoding fits return_val_len but
\* the bytes would not lie inside the outer memory, invoke returns the hard
\* error "can't write return value" and writes nothing.
C11_FittingValueWrittenInBounds ==
  [][ \A result \in ExportResults :
        (stack # <<>> /\ invoke_return(result))
        => LET val == EncodeReturnValue(result.val) IN
           /\ (Fits(result) /\ InMemory(memory, Top.return_val, Len(val)))
                => /\ outcome' = [op |-> "invoke", res |-> Ok(ERR_OK)]
                   /\ ExactlyWritten(memory, memory', Top.return_val, val)
           /\ (Fits(result) /\ ~InMemory(memory, Top.return_val, Len(val)))
                => /\ outcome' = [op |-> "invoke",
                                  res |-> Err("can't write return value")]
                   /\ memory' = memory
           /\ result.kind = "none"
                => /\ outcome' = [op |-> "invoke", res |-> Ok(ERR_OK)]
                   /\ memory' = memory ]_vars

\* A top-level invoke has written the six bytes of the encoded I32 value
\* at address 0 and returned ERR_OK; the byte after them is untouched.
C11_Witness ==
  /\ status = "running"
  /\ stack = <<>>
  /\ outcome = [op |-> "invoke", res |-> Ok(ERR_OK)]
  /\ [i \in 1 .. 6 |-> memory[i - 1]] = EncodeReturnValue([ty |-> "I32", v |-> 258])
  /\ memory[6] = 0

\* The bytes [address, address + len) of a memory, as a sequence.
Bytes(mem, address, len) == [i \in 1 .. len |-> mem[address + i - 1]]

\* C12: on a registered memory id (the store being in the host state),
\* memory_get and memory_set check the range (offset, len) against the
\* nested memory and the range (address, len) against the outer memory,
\* each on its own: when either lies outside, the call returns
\* Ok(ERR_OUT_OF_BOUNDS), a value and not a hard error, and neither memory
\* is changed; when both lie inside it returns Ok(ERR_OK), memory_get having
\* changed the outer range only and memory_set the nested range only.
\* (A step of memory_get or memory_set records the function's name in
\* outcome; that is looked at first.)
C12_BoundsCheckedIndependently ==
  [][ \A id \in MemoryIds, offset \in Offsets, ptr \in Pointers, len \in Lengths :
        (IsSome(sandbox_store) /\ HasMemory(TheStore, id))
        => LET nested  == StoreMemory(TheStore, id)
               inside  == /\ InMemory(nested, offset, len)
                          /\ InMemory(memory, ptr, len)
           IN
           /\ (outcome'.op = "memory_get" /\ ~inside /\ memory_get(id, offset, ptr, len))
                => /\ outcome' = [op |-> "memory_get", res |-> Ok(ERR_OUT_OF_BOUNDS)]
                   /\ UNCHANGED <<memory, sandbox_store>>
           /\ (outcome'.op = "memory_set" /\ ~inside /\ memory_set(id, offset, ptr, len))
                => /\ outcome' = [op |-> "memory_set", res |-> Ok(ERR_OUT_OF_BOUNDS)]
                   /\ UNCHANGED <<memory, sandbox_store>>
           /\ (outcome'.op = "memory_get" /\ inside /\ memory_get(id, offset, ptr, len))
                => /\ outcome' = [op |-> "memory_get", res |-> Ok(ERR_OK)]
                   /\ ExactlyWritten(memory, memory', ptr, Bytes(nested, offset, len))
                   /\ UNCHANGED sandbox_store
           /\ (outcome'.op = "memory_set" /\ inside /\ memory_set(id, offset, ptr, len))
                => /\ outcome' = [op |-> "memory_set", res |-> Ok(ERR_OK)]
                   /\ ExactlyWritten(nested, StoreMemory(Unwrap(sandbox_store'), id),
                                     offset, Bytes(memory, ptr, len))
                   /\ UNCHANGED memory ]_vars

\* memory_get has returned ERR_OUT_OF_BOUNDS on a registered memory that an
\* earlier memory_set had filled from address 0.
C12_Witness ==
  /\ outcome = [op |-> "memory_get", res |-> Ok(ERR_OUT_OF_BOUNDS)]
  /\ IsSome(sandbox_store)
  /\ HasMemory(TheStore, 0)
  /\ Bytes(StoreMemory(TheStore, 0), 0, 3) = <<1, 2, 3>>

\* C13: round trip through a nested memory.  In every state the program
\* reaches, for a memory created by memory_new and still registered:
\* memory_set of len bytes from an outer address src to an offset, both
\* ranges inside their memories, followed by memory_get of the same offset
\* and len to another outer address dst inside the outer memory, returns
\* Ok(ERR_OK) both times and leaves at dst the bytes that were at src.
C13_RoundTrip ==
  \A id \in MemoryIds, offset \in Offsets, len \in Lengths,
     src \in Pointers, dst \in Pointers :
    ( /\ IsSome(sandbox_store) /\ HasMemory(TheStore, id)
      /\ src # dst
      /\ InMemory(StoreMemory(TheStore, id), offset, len)
      /\ InMemory(memory, src, len) /\ InMemory(memory, dst, len) )
    => LET set == MemorySetOutcome(TheStore, memory, id, offset, src, len)
           get == MemoryGetOutcome(set.store, memory, id, offset, dst, len)
       IN  /\ set.res = Ok(ERR_OK)
           /\ get.res = Ok(ERR_OK)
           /\ Bytes(get.mem, dst, len) = Bytes(memory, src, len)

\* Scenario 1 has run: memory_new(1, 2), memory_set of three bytes from
\* address 0 to offset 0, memory_get of them to address 4 returned ERR_OK,
\* and the bytes at 4 are the bytes at 0; the byte after them is untouched.
C13_Witness ==
  /\ outcome = [op |-> "memory_get", res |-> Ok(ERR_OK)]
  /\ IsSome(sandbox_store)
  /\ HasMemory(TheStore, 0)
  /\ Bytes(StoreMemory(TheStore, 0), 0, 3) = <<1, 2, 3>>
  /\ Bytes(memory, 0, 3) = <<1, 2, 3>>
  /\ Bytes(memory, 4, 4) = <<1, 2, 3, 8>>

\* The id has been issued by the store: it names an instance (a memory)
\* that is registered or has been torn down.
IssuedInstance(store, id) == id + 1 <= Len(store.instances)
IssuedMemory(store, id)   == id + 1 <= Len(store.memories)

\* The step is a failed call: it returns the invalid-handle error and
\* changes nothing.
FailsInvalidHandle(op) ==
  /\ outcome' = [op |-> op, res |-> InvalidHandle]
  /\ UNCHANGED <<sandbox_store, memory, table, stack, status, panic_cause>>
  /\ UNCHANGED rest

C15_PanicCaughtRestoredReraised ==
  [][ /\ ( /\ status = "unwinding"
           /\ stack # <<>> /\ Top.op = "instance_new"
           /\ stack' # stack )
         => /\ stack' = Pop(stack)
            /\ IsSome(Top.store)
            /\ sandbox_store' = Top.store
            /\ outcome' = [op |-> "instance_new", res |-> Panicked]
            /\ status' = (IF stack' = <<>> THEN "panicked" ELSE "unwinding")
            /\ panic_cause' = panic_cause
      /\ status = "unwinding"
         => /\ outcome'.res.kind \in {"panic", "none"}
            /\ status' \in {"unwinding", "panicked", "aborted"}
            /\ panic_cause' = panic_cause
      /\ (status = "running" /\ instantiate_panic)
         => /\ status' = "unwinding"
            /\ UNCHANGED <<sandbox_store, stack>> ]_vars

\* The instantiation of a top-level instance_new has panicked: the panic
\* has left the call, the store is back in the host state and holds no
\* instance.
C15_Witness ==
  /\ status = "panicked"
  /\ panic_cause = "instantiate"
  /\ stack = <<>>
  /\ outcome = [op |-> "instance_new", res |-> Panicked]
  /\ sandbox_store = Some(EmptyStore)

\* C16: the deferred panic message.  A fresh host state has no message.
\* register_panic_error_message stores its message in the host state and
\* does nothing else: it returns normally, raises no panic and changes
\* neither the store nor the allocator nor the outer memory.  No other
\* host call changes the message, so it survives the later host calls of
\* the runtime call.  take_panic_message returns the message registered
\* last and leaves the slot empty, so that a second take with no
\* registration in between returns None.
C16_DeferredPanicMessage ==
  /\ panic_message = None
  /\ [][ /\ \A message \in Messages :
               register_panic_error_message(message)
               => /\ panic_message' = Some(message)
                  /\ outcome'.res.kind = "ok"
                  /\ status' = "running"
                  /\ UNCHANGED <<sandbox_store, allocator, memory, stack, panic_cause>>
         /\ take_panic_message
               => /\ taken' = panic_message
                  /\ panic_message' = None
                  /\ UNCHANGED <<sandbox_store, allocator, memory>>
         /\ outcome'.op \notin {"register_panic_error_message", "take_panic_message"}
               => UNCHANGED <<panic_message, taken>> ]_vars

\* "m1" was registered, then "m2"; an allocation and a memory_new later,
\* take_panic_message has returned "m2" and the slot is empty.
C16_Witness ==
  /\ outcome.op = "take_panic_message"
  /\ taken = Some("m2")
  /\ panic_message = None
  /\ allocator.bumper > 0
  /\ IsSome(sandbox_store) /\ HasMemory(TheStore, 0)

\* C17: bounds safety of the outer memory.  read_memory_into and
\* write_memory with address + length greater than the size the memory has
\* at the call return an error, leave the memory as it is, and the buffer
\* of the read receives nothing (it stays as it was passed, zeros); with
\* address + length within the size they return Ok, the read fills the
\* buffer with the bytes [address, address + length) and changes no memory,
\* the write replaces exactly those bytes.
C17_BoundsSafety ==
  [][ \A address \in Pointers :
        /\ \A len \in Lengths :
             (outcome'.op = "read_memory_into" /\ read_memory_into(address, len))
             => /\ memory' = memory
                /\ IF address + len > MemSize(memory)
                     THEN /\ outcome'.res.kind = "err"
                          /\ dest' = [i \in 1 .. len |-> 0]
                     ELSE /\ outcome'.res = Ok(0)
                          /\ dest' = Bytes(memory, address, len)
        /\ \A data \in WriteData :
             (outcome'.op = "write_memory" /\ host_write_memory(address, data))
             => IF address + Len(data) > MemSize(memory)
                  THEN /\ outcome'.res.kind = "err"
                       /\ memory' = memory
                  ELSE /\ outcome'.res = Ok(0)
                       /\ ExactlyWritten(memory, memory', address, data) ]_vars

\* A write of three bytes at the last two addresses has failed; the
\* memory holds the three bytes of an earlier write at 0 and is otherwise as
\* at the start.
C17_Witness ==
  /\ outcome = [op |-> "write_memory", res |-> Err("OutOfBounds")]
  /\ MemSize(memory) = MemBytes
  /\ Bytes(memory, 0, 4) = <<21, 22, 23, 4>>
  /\ Bytes(memory, MemBytes - 2, 2) = <<MemBytes - 1, MemBytes>>

\* ------------------------------------------------------------------ C19
\* C19: every function that looks at the outer memory judges its ranges by
\* the size the memory has when the function is called, the guest having
\* grown the memory before the call or not (growth inside the supervisor
\* function called by the export of an invoke included): read_memory_into
\* and write_memory succeed exactly when the range ends inside the memory
\* as it is now, allocate_memory exactly when the allocation fits the memory
\* as it is now, deallocate_memory whatever the size, memory_get and
\* memory_set on a registered memory exactly when both ranges lie inside the
\* memories as they are now, and the write of the value returned by invoke
\* exactly when its range lies inside the memory as it is when the export
\* has returned.  (The name of the function is looked at first: it tells
\* which function took the step.)
C19_NoStaleMemoryView ==
  [][ /\ (outcome'.op = "read_memory_into") =>
           /\ (outcome'.res.kind = "ok") <=> InMemory(memory, Edge, Len(dest'))
           /\ (outcome'.res.kind = "ok") => dest' = Bytes(memory, Edge, Len(dest'))
      /\ (outcome'.op = "write_memory") =>
           /\ (outcome'.res.kind = "ok") <=> InMemory(memory, Edge, Len(EdgeData))
           /\ (outcome'.res.kind = "ok") =>
                ExactlyWritten(memory, memory', Edge, EdgeData)
           /\ (outcome'.res.kind # "ok") => memory' = memory
      /\ (outcome'.op = "allocate_memory") =>
           \A size \in AllocSizes :
             (outcome'.res.kind = "ok") <=> InMemory(memory, allocator.bumper, size)
      /\ (outcome'.op = "deallocate_memory") =>
           ((outcome'.res.kind = "ok") <=> (0 \in allocator.ptrs))
      /\ (/\ outcome'.op = "memory_get"
          /\ IsSome(sandbox_store)
          /\ HasMemory(Unwrap(sandbox_store), 0)) =>
           \A len \in Lengths :
             /\ (outcome'.res = Ok(ERR_OK)) <=>
                  /\ InMemory(StoreMemory(Unwrap(sandbox_store), 0), 0, len)
                  /\ InMemory(memory, Edge, len)
             /\ (outcome'.res = Ok(ERR_OK)) =>
                  Bytes(memory', Edge, len) =
                    Bytes(StoreMemory(Unwrap(sandbox_store), 0), 0, len)
      /\ (/\ outcome'.op = "memory_set"
          /\ IsSome(sandbox_store)
          /\ HasMemory(Unwrap(sandbox_store), 0)) =>
           \A len \in Lengths :
             /\ (outcome'.res = Ok(ERR_OK)) <=>
                  /\ InMemory(StoreMemory(Unwrap(sandbox_store), 0), 0, len)
                  /\ InMemory(memory, Edge, len)
             /\ (outcome'.res = Ok(ERR_OK)) =>
                  Bytes(StoreMemory(Unwrap(sandbox_store'), 0), 0, len) =
                    Bytes(memory, Edge, len)
      /\ (/\ outcome'.op = "invoke"
          /\ status = "running"
          /\ Len(stack') < Len(stack)) =>
           LET val == EncodeReturnValue(EdgeResult.val) IN
           /\ (outcome'.res = Ok(ERR_OK)) <=> InMemory(memory, EdgeBuf[1], Len(val))
           /\ (outcome'.res = Ok(ERR_OK)) =>
                ExactlyWritten(memory, memory', EdgeBuf[1], val)
           /\ (outcome'.res # Ok(ERR_OK)) =>
                /\ outcome'.res = Err("can't write return value")
                /\ memory' = memory
    ]_vars

\* invoke has returned ERR_OK, the value written to a range that ends beyond
\* the size the memory had at the start: the memory has grown since.
C19_Witness ==
  /\ outcome = [op |-> "invoke", res |-> Ok(ERR_OK)]
  /\ MemSize(memory) > MemBytes
  /\ EdgeBuf[1] + Len(EncodeReturnValue(EdgeResult.val)) > MemBytes
  /\ Bytes(memory, EdgeBuf[1], Len(EncodeReturnValue(EdgeResult.val))) =
       EncodeReturnValue(EdgeResult.val)

\* ------------------------------------------------------------------ C18
\* The frame pushed by the step, when it pushes one.
Pushed == stack'[Len(stack')]
Pushes(op) == Len(stack') = Len(stack) + 1 /\ Pushed.op = op

\* Every registered instance of the store holds a function reference that
\* is not null.
ThunksAlive(store) ==
  \A i \in 1 .. Len(store.instances) :
    store.instances[i].live => store.instances[i].thunk # 0

\* C18: the dispatch thunk of an instance is the function reference read
\* from the table when instance_new is called: (1) the reference that
\* instance_new carries is the one in a slot of the table at that moment;
\* (2) it is the one the instance is registered with; (3) as long as the
\* instance is registered its reference is the same non-null reference,
\* whatever the guest writes to the table, whichever instances are created
\* or torn down, the store being in the host state or taken by an
\* instance_new; (4) an invoke of the instance carries the reference the
\* instance is registered with, and (5) every supervisor call of its export
\* calls the reference the invoke carries, not what the table holds now.
C18_ThunkCapturedAtInstanceNew ==
  [][ /\ Pushes("instance_new") =>
           /\ \E id \in ThunkSlots :
                Unwrap(table)[id + 1] = Slot("FuncRef", Pushed.thunk)
           /\ Pushed.thunk # 0
           /\ Pushed.store = sandbox_store
      /\ (/\ outcome'.op = "instance_new"
          /\ outcome'.res.kind = "ok"
          /\ outcome'.res.val >= 0
          /\ Len(stack') < Len(stack)) =>
           /\ IsSome(sandbox_store')
           /\ HasInstance(Unwrap(sandbox_store'), outcome'.res.val)
           /\ StoreDispatchThunk(Unwrap(sandbox_store'), outcome'.res.val) = Top.thunk
           /\ \A id \in InstanceIds :
                HasInstance(Unwrap(Top.store), id) =>
                  /\ HasInstance(Unwrap(sandbox_store'), id)
                  /\ StoreDispatchThunk(Unwrap(sandbox_store'), id) =
                       StoreDispatchThunk(Unwrap(Top.store), id)
      /\ (IsSome(sandbox_store) /\ IsSome(sandbox_store')) =>
           /\ ThunksAlive(Unwrap(sandbox_store'))
           /\ \A id \in InstanceIds :
                (/\ HasInstance(Unwrap(sandbox_store), id)
                 /\ HasInstance(Unwrap(sandbox_store'), id)) =>
                  StoreDispatchThunk(Unwrap(sandbox_store'), id) =
                    StoreDispatchThunk(Unwrap(sandbox_store), id)
      /\ Pushes("invoke") =>
           /\ HasInstance(Unwrap(sandbox_store), Pushed.inst)
           /\ Pushed.thunk = StoreDispatchThunk(Unwrap(sandbox_store), Pushed.inst)
      /\ Pushes("dispatch") => Pushed.thunk = Top.thunk
      /\ (Len(stack') >= Len(stack)) =>
           \A k \in 1 .. Len(stack) : stack'[k] = stack[k]
    ]_vars

\* The export of an invoke is calling a supervisor function through the
\* reference its instance was created with, while the slot that reference
\* was read from holds another function and the instance created last has
\* another reference.
C18_Witness ==
  /\ Len(stack) = 2
  /\ stack[1].op = "invoke" /\ stack[1].inst = 0 /\ stack[1].thunk = 1
  /\ stack[2].op = "dispatch" /\ stack[2].thunk = 1
  /\ Unwrap(table)[1] = Slot("FuncRef", 3)
  /\ IsSome(sandbox_store)
  /\ HasInstance(Unwrap(sandbox_store), 0)
  /\ HasInstance(Unwrap(sandbox_store), 1)
  /\ StoreDispatchThunk(Unwrap(sandbox_store), 1) = 3

\* ------------------------------------------------------------------ C20
\* An invoke of instance id is in progress.
InvokeInProgress(id) ==
  \E k \in 1 .. Len(stack) : stack[k].op = "invoke" /\ stack[k].inst = id

\* The instance whose export the innermost invoke runs is not registered
\* any more: it has been torn down since the invoke looked it up.
OwnInstanceTornDown ==
  /\ stack # <<>> /\ Top.op = "invoke"
  /\ IsSome(sandbox_store)
  /\ ~HasInstance(TheStore, Top.inst)

\* The step is the return of the innermost invoke, its export having
\* returned.
InvokeReturns ==
  /\ outcome'.op = "invoke"
  /\ status = "running"
  /\ Len(stack') < Len(stack)

\* C20 as claimed: when instance_teardown(A) is called by a supervisor
\* function while invoke runs an export of A, the teardown succeeds and
\* leaves the invoke in progress as it is; the export goes on calling
\* supervisor functions through the dispatch thunk the invoke looked up;
\* when the export has returned the invoke returns Ok(ERR_OK) or
\* Ok(ERR_EXECUTION); and from the teardown on the id of A names nothing:
\* invoke (with arguments that decode) and instance_teardown on it, the
\* store being in the host state, fail with the invalid-handle error and
\* change nothing.
C20_TeardownDuringOwnInvoke ==
  [][ /\ OwnInstanceTornDown =>
           /\ InvokeReturns =>
                /\ outcome'.res \in {Ok(ERR_OK), Ok(ERR_EXECUTION)}
                /\ stack' = Pop(stack)
                /\ status' = "running"
           /\ Pushes("dispatch") => (Pushed.thunk = Top.thunk /\ Top.thunk # 0)
      /\ \A id \in InstanceIds :
           /\ (/\ InvokeInProgress(id)
               /\ IsSome(sandbox_store)
               /\ HasInstance(TheStore, id)
               /\ outcome'.op = "instance_teardown"
               /\ instance_teardown(id)) =>
                /\ outcome'.res = Ok(0)
                /\ ~HasInstance(Unwrap(sandbox_store'), id)
                /\ stack' = stack
                /\ status' = "running"
           /\ (/\ IsSome(sandbox_store)
               /\ IssuedInstance(TheStore, id)
               /\ ~HasInstance(TheStore, id)) =>
                /\ (outcome'.op = "instance_teardown" /\ instance_teardown(id))
                     => FailsInvalidHandle("instance_teardown")
                /\ (outcome'.op = "invoke"
                      /\ invoke(id, TRUE, NestBuf[1], NestBuf[2], MaxNest))
                     => FailsInvalidHandle("invoke")
                /\ (StoreCopies' = 1) => ~HasInstance(CurrentStore', id)
    ]_vars

\* C20 as it holds: the same, the invoke returning when its export has
\* returned what it returns for an instance that is still registered:
\* Ok(ERR_OK), Ok(ERR_EXECUTION), or the hard error of a returned value
\* that does not fit the buffer or cannot be written; never the
\* invalid-handle error.
C20_TeardownDuringOwnInvokeKeepsResult ==
  [][ /\ OwnInstanceTornDown =>
           /\ InvokeReturns =>
                /\ outcome'.res \in
                     {Ok(ERR_OK), Ok(ERR_EXECUTION),
                      Err("Return value buffer is too small"),
                      Err("can't write return value")}
                /\ (outcome'.res.kind = "err") => memory' = memory
                /\ stack' = Pop(stack)
                /\ status' = "running"
           /\ Pushes("dispatch") => (Pushed.thunk = Top.thunk /\ Top.thunk # 0)
      /\ \A id \in InstanceIds :
           /\ (/\ InvokeInProgress(id)
               /\ IsSome(sandbox_store)
               /\ HasInstance(TheStore, id)
               /\ outcome'.op = "instance_teardown"
               /\ instance_teardown(id)) =>
                /\ outcome'.res = Ok(0)
                /\ ~HasInstance(Unwrap(sandbox_store'), id)
                /\ stack' = stack
                /\ status' = "running"
           /\ (/\ IsSome(sandbox_store)
               /\ IssuedInstance(TheStore, id)
               /\ ~HasInstance(TheStore, id)) =>
                /\ (outcome'.op = "instance_teardown" /\ instance_teardown(id))
                     => FailsInvalidHandle("instance_teardown")
                /\ (outcome'.op = "invoke"
                      /\ invoke(id, TRUE, NestBuf[1], NestBuf[2], MaxNest))
                     => FailsInvalidHandle("invoke")
                /\ (StoreCopies' = 1) => ~HasInstance(CurrentStore', id)
    ]_vars

\* The supervisor function called by the export of instance 0 has torn
\* instance 0 down and has then invoked it again, which failed with the
\* invalid-handle error; the first invoke is still in progress.
C20_Witness ==
  /\ status = "running"
  /\ Len(stack) = 2
  /\ stack[1].op = "invoke" /\ stack[1].inst = 0 /\ stack[1].thunk # 0
  /\ stack[2].op = "dispatch" /\ stack[2].thunk = stack[1].thunk
  /\ IsSome(sandbox_store)
  /\ IssuedInstance(TheStore, 0) /\ ~HasInstance(TheStore, 0)
  /\ outcome = [op |-> "invoke", res |-> InvalidHandle]

====
